---- MODULE Spec2Model ----
(***************************************************************************)
(* ServoController (src/movclass.py) and the acquisition loop              *)
(* (src/vision.py) as state machines.                                      *)
(*                                                                         *)
(* Units.  Angles are held in half degrees (Deg(d) = 2*d), so that the     *)
(* float (min_angle + max_angle) / 2 of center() is exact.  Hold times are *)
(* in milliseconds.  Pulse widths are in microseconds, frequencies in Hz.  *)
(* Python's float arithmetic of _angle_to_duty_cycle is modelled by exact  *)
(* rationals <<numerator, denominator>> in lowest terms.                   *)
(***************************************************************************)
EXTENDS Integers, Sequences, FiniteSets, TLC

VARIABLES
    phase,          \* "constructing" | "ready" | "failed"  (ServoController.__init__)
    servo,          \* the ServoController object's fields
    pwm,            \* the last lgpio.tx_pwm command issued and how the sink answered
    lastOp,         \* the last public call and its arguments
    calls,          \* the set_angle calls made by the last public call
    err,            \* the exception the last public call let escape ("none" if none)
    pc,             \* "idle" | "sweep": position inside sweep's for loop
    it,             \* the range() iterator of the running sweep
    vpc,            \* vision.py: "loop" | "done"
    frames,         \* vision.py: frames read so far
    boxes,          \* vision.py: the boxes of the last frame read
    fired,          \* vision.py: the last frame read spawned the target process
    spawned         \* vision.py: subprocess.Popen calls so far

vars == <<phase, servo, pwm, lastOp, calls, err, pc, it, vpc, frames, boxes, fired, spawned>>
servoVars == <<phase, servo, pwm, lastOp, calls, err, pc, it>>
visionVars == <<vpc, frames, boxes, fired, spawned>>

----------------------------------------------------------------------------
(* Exact rationals for Python's float arithmetic *)

Abs(x) == IF x < 0 THEN -x ELSE x

RECURSIVE GCD(_, _)
GCD(a, b) == IF b = 0 THEN a ELSE GCD(b, a % b)

Rat(n, d) ==
    LET g == GCD(Abs(n), Abs(d))
        s == IF d < 0 THEN -1 ELSE 1
    IN  <<(s * n) \div g, (s * d) \div g>>

RatAdd(p, q) == Rat(p[1] * q[2] + q[1] * p[2], p[2] * q[2])
RatMul(p, q) == Rat(p[1] * q[1], p[2] * q[2])
RatDiv(p, q) == Rat(p[1] * q[2], p[2] * q[1])
RatLe(p, q) == p[1] * q[2] <= q[1] * p[2]
RatInt(n) == <<n, 1>>

Deg(d) == 2 * d

----------------------------------------------------------------------------
(* Inputs *)

\* an optional argument: <<>> is None, <<v>> is the value v
NoneArg == <<>>
PinArgs == {18}
MinAngleArgs == {0, 45}
MaxAngleArgs == {45, 180}
MinPulseArgs == {500}
MaxPulseArgs == {2500}
FrequencyArgs == {0, 50, 500}
AngleArgs == {Deg(-10), Deg(30), Deg(90), Deg(999)}
\* hold times are durations: time.sleep raises ValueError on a negative one
HoldArgs == {0, 100}
SweepStartArgs == {NoneArg, <<0>>, <<180>>}
SweepEndArgs == {NoneArg, <<0>>, <<180>>}
SweepStepArgs == {-5, 0, 5, 7}
SweepDelayArgs == {50}
SinkOutcomes == {"ok", "negative", "raise"}

NoRange == [next |-> 0, stop |-> 0, step |-> 1]
NoPwm == [frequency |-> 0, duty |-> RatInt(0), result |-> "none"]

----------------------------------------------------------------------------
(* ServoController *)

\* max(self.min_angle, min(self.max_angle, angle))
PyMin(a, b) == IF b < a THEN b ELSE a
PyMax(a, b) == IF b > a THEN b ELSE a
clamp(self, angle) == PyMax(self.min_angle, PyMin(self.max_angle, angle))

\* _angle_to_duty_cycle raises ZeroDivisionError
duty_cycle_raises(self) ==
    \/ self.max_angle - self.min_angle = 0
    \/ self.frequency = 0

angle_to_duty_cycle(self, angle0) ==
    LET angle == clamp(self, angle0)
        angle_range == self.max_angle - self.min_angle
        pulse_range == self.max_pulse_width - self.min_pulse_width
        pulse_width == RatAdd(RatInt(self.min_pulse_width),
                              RatMul(RatInt(angle - self.min_angle),
                                     RatDiv(RatInt(pulse_range), RatInt(angle_range))))
        period == RatDiv(RatInt(1000000), RatInt(self.frequency))
    IN  RatMul(RatDiv(pulse_width, period), RatInt(100))

\* set_angle without its clamp of line 109
set_angle_target_unclamped(self, angle) == angle

\* the angle set_angle clamps its argument to
set_angle_target(self, angle) == clamp(self, angle)

\* self.current_angle after the try block of set_angle
set_angle_commit(self, angle, outcome) ==
    IF outcome = "raise" THEN self.current_angle ELSE angle

\* set_angle from its clamp on, given that _angle_to_duty_cycle does not raise
set_angle_do(self, angle0, hold_time, outcome, log) ==
    LET angle == set_angle_target(self, angle0)
        duty_cycle == angle_to_duty_cycle(self, angle)
    IN  /\ pwm' = [frequency |-> self.frequency, duty |-> duty_cycle, result |-> outcome]
        /\ servo' = [self EXCEPT !.current_angle = set_angle_commit(self, angle, outcome)]
        /\ calls' = Append(log, [angle |-> angle0, hold_time |-> hold_time])

\* __init__ up to the lgpio initialisation (lines 38-47)
InitServo ==
    /\ phase = "constructing"
    /\ \E pin \in PinArgs, lo \in MinAngleArgs, hi \in MaxAngleArgs,
          pmin \in MinPulseArgs, pmax \in MaxPulseArgs, f \in FrequencyArgs :
          servo = [pin |-> pin, min_angle |-> Deg(lo), max_angle |-> Deg(hi),
                   frequency |-> f, current_angle |-> Deg(90),
                   min_pulse_width |-> pmin, max_pulse_width |-> pmax]
    /\ pwm = NoPwm
    /\ lastOp = [op |-> "none"]
    /\ calls = <<>>
    /\ err = "none"
    /\ pc = "idle"
    /\ it = NoRange

\* __init__ from the lgpio initialisation on (lines 49-63)
init(chipOk, outcome) ==
    /\ phase = "constructing"
    /\ lastOp' = [op |-> "init"]
    /\ UNCHANGED <<pc, it>>
    /\ IF ~chipOk
       THEN /\ phase' = "failed"
            /\ err' = "lgpio.error"
            /\ UNCHANGED <<servo, pwm, calls>>
       ELSE IF duty_cycle_raises(servo)
       THEN /\ phase' = "failed"
            /\ err' = "ZeroDivisionError"
            /\ UNCHANGED <<servo, pwm, calls>>
       ELSE /\ phase' = "ready"
            /\ err' = "none"
            /\ set_angle_do(servo, Deg(90), 100, outcome, <<>>)

set_angle(angle, hold_time, outcome) ==
    /\ phase = "ready"
    /\ pc = "idle"
    /\ lastOp' = [op |-> "set_angle", angle |-> angle, hold_time |-> hold_time]
    /\ err' = "none"
    /\ set_angle_do(servo, angle, hold_time, outcome, <<>>)
    /\ UNCHANGED <<phase, pc, it>>

center(outcome) ==
    /\ phase = "ready"
    /\ pc = "idle"
    /\ lastOp' = [op |-> "center"]
    /\ err' = "none"
    /\ LET center_angle == (servo.min_angle + servo.max_angle) \div 2
       IN  set_angle_do(servo, center_angle, 100, outcome, <<>>)
    /\ UNCHANGED <<phase, pc, it>>

\* the command off() sends
off_command(self, outcome) == [frequency |-> 0, duty |-> RatInt(0), result |-> outcome]

\* off() parking the servo at its minimum angle
off_servo_parked(self) == [self EXCEPT !.current_angle = self.min_angle]

\* the object off() leaves
off_servo(self) == self

off(outcome) ==
    /\ phase = "ready"
    /\ pc = "idle"
    /\ lastOp' = [op |-> "off"]
    /\ err' = "none"
    /\ pwm' = off_command(servo, outcome)
    /\ servo' = off_servo(servo)
    /\ calls' = <<>>
    /\ UNCHANGED <<phase, pc, it>>

\* range(start, stop, step) as an iterator; range() raises ValueError when step is 0
range_has_next(r) == IF r.step > 0 THEN r.next < r.stop ELSE r.next > r.stop

\* the range sweep iterates over (lines 145-152), start and end already defaulted
sweep_range(start_angle, end_angle, step) ==
    IF start_angle < end_angle
    THEN [next |-> start_angle, stop |-> end_angle + Deg(1), step |-> Deg(step)]
    ELSE [next |-> start_angle, stop |-> end_angle - Deg(1), step |-> -Deg(step)]

\* sweep up to the first iteration of its loop
sweep(start_arg, end_arg, step, delay) ==
    /\ phase = "ready"
    /\ pc = "idle"
    /\ LET start_angle == IF start_arg = NoneArg THEN servo.min_angle ELSE Deg(start_arg[1])
           end_angle == IF end_arg = NoneArg THEN servo.max_angle ELSE Deg(end_arg[1])
           r == sweep_range(start_angle, end_angle, step)
       IN  /\ lastOp' = [op |-> "sweep", start_angle |-> start_angle,
                         end_angle |-> end_angle, step |-> Deg(step), delay |-> delay]
           /\ calls' = <<>>
           /\ IF step = 0
              THEN /\ err' = "ValueError"
                   /\ UNCHANGED <<pc, it>>
              ELSE /\ err' = "none"
                   /\ IF range_has_next(r)
                      THEN pc' = "sweep" /\ it' = r
                      ELSE UNCHANGED <<pc, it>>
    /\ UNCHANGED <<phase, servo, pwm>>

\* one iteration of sweep's for loop: self.set_angle(angle, hold_time=delay)
sweep_iter(outcome) ==
    /\ phase = "ready"
    /\ pc = "sweep"
    /\ set_angle_do(servo, it.next, lastOp.delay, outcome, calls)
    /\ LET r == [it EXCEPT !.next = it.next + it.step]
       IN  IF range_has_next(r)
           THEN it' = r /\ pc' = "sweep"
           ELSE it' = NoRange /\ pc' = "idle"
    /\ UNCHANGED <<phase, lastOp, err>>

----------------------------------------------------------------------------
(* vision.py *)

MaxContours == 3
MaxFrames == 3

\* contours as (contourArea, boundingRect): what lines 16-19 read of a contour
Contours ==
    { [area |-> a, x |-> r[1], y |-> r[2], w |-> r[3], h |-> r[4]] :
        a \in {40, 100},
        r \in {<<0, 0, 10, 10>>, <<20, 5, 5, 5>>, <<0, 0, 20, 20>>, <<40, 0, 10, 20>>} }

ContourLists == UNION { [1..n -> Contours] : n \in 0..MaxContours }

\* cv2.contourArea(c) > 50 and 0.8 < w / float(h) < 1.25
keeps(c) == c.area > 50 /\ 4 * c.h < 5 * c.w /\ 4 * c.w < 5 * c.h

RECURSIVE filter_boxes(_)
filter_boxes(cs) ==
    IF cs = <<>> THEN <<>>
    ELSE LET c == Head(cs)
         IN  IF keeps(c)
             THEN <<<<c.x, c.y, c.w, c.h>>>> \o filter_boxes(Tail(cs))
             ELSE filter_boxes(Tail(cs))

\* bottoms = [y+h for (_,y,_,h) in boxes]  (line 22 spells the keyword "i n")
bottoms_of(bs) == [i \in 1..Len(bs) |-> bs[i][2] + bs[i][4]]

RECURSIVE list_max(_)
list_max(xs) ==
    IF Len(xs) = 1 THEN xs[1]
    ELSE LET m == list_max(Tail(xs)) IN IF Head(xs) >= m THEN Head(xs) ELSE m

RECURSIVE list_count(_, _)
list_count(xs, v) ==
    IF xs = <<>> THEN 0
    ELSE (IF Head(xs) = v THEN 1 ELSE 0) + list_count(Tail(xs), v)

\* the trigger with ties broken arbitrarily
triggers_on_tie(bs) == bs # <<>>

\* lines 21-24: the frame triggers
triggers(bs) ==
    /\ bs # <<>>
    /\ LET bottoms == bottoms_of(bs)
           m == list_max(bottoms)
       IN  list_count(bottoms, m) = 1

\* the loop without the break of line 26
after_trigger_no_break == "loop"

\* the loop's position after a frame that triggered (the break of line 26)
after_trigger == "done"

InitVision ==
    /\ vpc = "loop"
    /\ frames = 0
    /\ boxes = <<>>
    /\ fired = FALSE
    /\ spawned = 0

\* cap.read() fails: break
read_fail ==
    /\ vpc = "loop"
    /\ vpc' = "done"
    /\ UNCHANGED <<frames, boxes, fired, spawned>>

\* one iteration of the while loop on a frame that was read
read_frame(contours) ==
    /\ vpc = "loop"
    /\ frames < MaxFrames
    /\ frames' = frames + 1
    /\ LET bs == filter_boxes(contours)
       IN  /\ boxes' = bs
           /\ IF triggers(bs)
              THEN /\ spawned' = spawned + 1
                   /\ fired' = TRUE
                   /\ vpc' = after_trigger
              ELSE /\ fired' = FALSE
                   /\ UNCHANGED <<spawned, vpc>>

----------------------------------------------------------------------------
(* Specifications *)

Init == InitServo /\ InitVision

Next ==
    \/ \E chipOk \in BOOLEAN, o \in SinkOutcomes : init(chipOk, o) /\ UNCHANGED visionVars
    \/ \E a \in AngleArgs, h \in HoldArgs, o \in SinkOutcomes :
          set_angle(a, h, o) /\ UNCHANGED visionVars
    \/ \E o \in SinkOutcomes : center(o) /\ UNCHANGED visionVars
    \/ \E o \in SinkOutcomes : off(o) /\ UNCHANGED visionVars
    \/ \E s \in SweepStartArgs, e \in SweepEndArgs, st \in SweepStepArgs, d \in SweepDelayArgs :
          sweep(s, e, st, d) /\ UNCHANGED visionVars
    \/ \E o \in SinkOutcomes : sweep_iter(o) /\ UNCHANGED visionVars

Spec == Init /\ [][Next]_vars

InitV ==
    /\ InitVision
    /\ phase = "constructing"
    /\ servo = [pin |-> 18, min_angle |-> Deg(0), max_angle |-> Deg(180),
                frequency |-> 50, current_angle |-> Deg(90),
                min_pulse_width |-> 500, max_pulse_width |-> 2500]
    /\ pwm = NoPwm
    /\ lastOp = [op |-> "none"]
    /\ calls = <<>>
    /\ err = "none"
    /\ pc = "idle"
    /\ it = NoRange

NextVision ==
    \/ read_fail /\ UNCHANGED servoVars
    \/ \E cs \in ContourLists : read_frame(cs) /\ UNCHANGED servoVars

SpecVision == InitV /\ [][NextVision]_vars

----------------------------------------------------------------------------
(* Properties *)

ValidRange == servo.min_angle < servo.max_angle

\* the duty cycle of a boundary angle: its pulse width over the period, in percent
BoundaryDuty(self, boundary) ==
    Rat((IF boundary = self.max_angle THEN self.max_pulse_width ELSE self.min_pulse_width)
            * self.frequency, 10000)

\* the linear interpolation of the pulse width over the period, in percent
ExpectedDuty(self, angle) ==
    Rat((self.min_pulse_width * (self.max_angle - self.min_angle)
            + (angle - self.min_angle) * (self.max_pulse_width - self.min_pulse_width))
            * self.frequency,
        (self.max_angle - self.min_angle) * 10000)

NearerBoundary(self, angle) == IF angle > self.max_angle THEN self.max_angle ELSE self.min_angle

Bottom(b) == b[2] + b[4]

HasUniqueWinner(bs) ==
    \E i \in 1..Len(bs) : \A j \in 1..Len(bs) : j # i => Bottom(bs[j]) < Bottom(bs[i])

\* C1: once a controller is constructed with min_angle < max_angle, after any
\* calls of set_angle, sweep, center and off (the sink failing or not),
\* min_angle <= current_angle <= max_angle.
C1_AngleWithinRange ==
    (phase = "ready" /\ ValidRange) =>
        /\ servo.min_angle <= servo.current_angle
        /\ servo.current_angle <= servo.max_angle

\* C2: a set_angle call whose sink command fails (tx_pwm raises or returns a
\* negative result) leaves current_angle as it was, and a set_angle call whose
\* sink command succeeds commits its clamped angle.
C2_FailureKeepsAngle ==
    [][lastOp'.op = "set_angle" =>
          /\ pwm'.result \in {"negative", "raise"} =>
                servo'.current_angle = servo.current_angle
          /\ pwm'.result = "ok" =>
                servo'.current_angle = PyMax(servo.min_angle, PyMin(servo.max_angle, lastOp'.angle))
      ]_vars

\* C3: right after construction with min_angle < max_angle, current_angle is
\* the midpoint (min_angle + max_angle) / 2.
C3_ConstructedAtMidpoint ==
    (phase = "ready" /\ lastOp.op = "init" /\ ValidRange) =>
        2 * servo.current_angle = servo.min_angle + servo.max_angle

\* C4: a completed sweep with step > 0 has called set_angle on start,
\* start +/- step, ... in the direction of travel, each with hold_time = delay,
\* the end angle being the last one; sweep(0, 180, 5) makes 37 calls.
C4_SweepReachesEnd ==
    (lastOp.op = "sweep" /\ pc = "idle" /\ err = "none" /\ lastOp.step > 0) =>
        LET dir == IF lastOp.start_angle < lastOp.end_angle THEN 1 ELSE -1
        IN  /\ Len(calls) >= 1
            /\ \A i \in 1..Len(calls) :
                  /\ calls[i].angle = lastOp.start_angle + dir * (i - 1) * lastOp.step
                  /\ calls[i].hold_time = lastOp.delay
            /\ calls[Len(calls)].angle = lastOp.end_angle
            /\ (lastOp.start_angle = Deg(0) /\ lastOp.end_angle = Deg(180)
                    /\ lastOp.step = Deg(5)) => Len(calls) = 37

C7_OutsideAngleClamped ==
    (phase = "ready" /\ ValidRange /\ lastOp.op = "set_angle"
        /\ (lastOp.angle < servo.min_angle \/ lastOp.angle > servo.max_angle)) =>
        LET boundary == NearerBoundary(servo, lastOp.angle)
        IN  /\ pwm.duty = BoundaryDuty(servo, boundary)
            /\ pwm.frequency = servo.frequency
            /\ pwm.result = "ok" => servo.current_angle = boundary

C7_Witness ==
    /\ phase = "ready"
    /\ lastOp.op = "set_angle"
    /\ lastOp.angle = Deg(999)
    /\ servo.max_angle = Deg(180)
    /\ pwm.result = "ok"
    /\ pwm.duty = Rat(25, 2)
    /\ servo.current_angle = Deg(180)

\* C8: for every controller that construction accepts, the duty cycle sent to
\* the sink for an angle of the range lies in [0, 100].
C8_DutyWithinPercent ==
    (phase = "ready" /\ ValidRange /\ pwm.result # "none") =>
        /\ RatLe(RatInt(0), pwm.duty)
        /\ RatLe(pwm.duty, RatInt(100))

\* C9: off() sends a command of duty cycle 0 and leaves current_angle and the
\* configuration as they were, the sink succeeding or not; the set_angle call
\* after it commands the servo again and commits its angle.
C9_OffKeepsState ==
    [][/\ lastOp'.op = "off" =>
             /\ pwm'.duty = RatInt(0)
             /\ servo' = servo
       /\ (lastOp.op = "off" /\ lastOp'.op = "set_angle" /\ ValidRange) =>
             LET angle == PyMax(servo.min_angle, PyMin(servo.max_angle, lastOp'.angle))
             IN  /\ pwm'.frequency = servo.frequency
                 /\ pwm'.duty = ExpectedDuty(servo, angle)
                 /\ pwm'.result = "ok" => servo'.current_angle = angle
      ]_vars

C9_Witness ==
    /\ lastOp.op = "off"
    /\ pwm.result = "raise"
    /\ pwm.duty = RatInt(0)
    /\ servo.current_angle = Deg(30)

\* C10: sweep with step <= 0 is rejected with an error, makes no set_angle
\* call and leaves current_angle as it was.
C10_BadStepRejected ==
    [][(pc = "idle" /\ lastOp'.op = "sweep" /\ lastOp'.step <= 0) =>
          /\ err' # "none"
          /\ calls' = <<>>
          /\ pc' = "idle"
          /\ servo'.current_angle = servo.current_angle
      ]_vars

====
